---- MODULE Spec2Model ----
(***************************************************************************)
(* Model of the NDVI ETL pipeline: main.run_pipeline, the raster transform *)
(* core (transform/compute_ndvi.py) and the reprojection step of the       *)
(* loader (load/load_to_postgis.py).                                       *)
(*                                                                         *)
(* Pixel arithmetic: numpy computes in float32.  The model computes with   *)
(* exact rationals plus the three IEEE specials (nan, +inf, -inf).  The    *)
(* properties stated below compare a quotient with -1, 0 and 1 and test    *)
(* for finiteness; IEEE rounding is monotone and -1, 0, 1 are              *)
(* representable, so these comparisons agree with float32 on the inputs    *)
(* the model draws.                                                        *)
(***************************************************************************)
EXTENDS Integers, Sequences, FiniteSets, TLC

(***************************************************************************)
(* Numbers: a finite rational n/d (d > 0, lowest terms) or an IEEE special.*)
(***************************************************************************)
Abs(x) == IF x < 0 THEN -x ELSE x

\* the values of a float32: a rational n/d, nan, +inf, -inf
Numbers == [k : {"fin", "nan", "pinf", "ninf"}, n : Int, d : Int]

Gcd[a \in Nat, b \in Nat] == IF b = 0 THEN a ELSE Gcd[b, a % b]

NaN == [k |-> "nan", n |-> 0, d |-> 1]

PInf == [k |-> "pinf", n |-> 0, d |-> 1]

NInf == [k |-> "ninf", n |-> 0, d |-> 1]

\* n/d in lowest terms with a positive denominator (d # 0)
Fin[n \in Int, d \in Int] ==
    LET g == Gcd[Abs(n), Abs(d)]
        s == IF d < 0 THEN -1 ELSE 1
    IN [k |-> "fin", n |-> s * (n \div g), d |-> s * (d \div g)]

\* np.isfinite
IsFinite(x) == x.k = "fin"

Neg[x \in Numbers] ==
    CASE x.k = "fin" -> Fin[-x.n, x.d]
      [] x.k = "pinf" -> NInf
      [] x.k = "ninf" -> PInf
      [] OTHER -> NaN

\* sign of a non-nan number: -1, 0, 1
Sign(x) ==
    CASE x.k = "pinf" -> 1
      [] x.k = "ninf" -> -1
      [] OTHER -> IF x.n > 0 THEN 1 ELSE IF x.n < 0 THEN -1 ELSE 0

\* IEEE addition
Add[x \in Numbers, y \in Numbers] ==
    CASE x.k = "nan" \/ y.k = "nan" -> NaN
      [] x.k = "fin" /\ y.k = "fin" ->
            LET g == Gcd[x.d, y.d]
            IN Fin[x.n * (y.d \div g) + y.n * (x.d \div g), (x.d \div g) * y.d]
      [] x.k = "fin" -> y
      [] y.k = "fin" -> x
      [] OTHER -> IF x.k = y.k THEN x ELSE NaN

Sub[x \in Numbers, y \in Numbers] == Add[x, Neg[y]]

\* IEEE multiplication
Mul[x \in Numbers, y \in Numbers] ==
    CASE x.k = "nan" \/ y.k = "nan" -> NaN
      [] x.k = "fin" /\ y.k = "fin" ->
            LET g1 == Gcd[Abs(x.n), y.d]
                g2 == Gcd[Abs(y.n), x.d]
            IN Fin[(x.n \div g1) * (y.n \div g2), (x.d \div g2) * (y.d \div g1)]
      [] Sign(x) = 0 \/ Sign(y) = 0 -> NaN
      [] OTHER -> IF Sign(x) * Sign(y) > 0 THEN PInf ELSE NInf

\* IEEE division: x/0 is +-inf, 0/0 and inf/inf are nan (np.errstate silences the warnings)
Div[x \in Numbers, y \in Numbers] ==
    CASE x.k = "nan" \/ y.k = "nan" -> NaN
      [] x.k = "fin" /\ y.k = "fin" ->
            IF y.n = 0
            THEN (IF x.n = 0 THEN NaN ELSE IF x.n > 0 THEN PInf ELSE NInf)
            ELSE LET g1 == Gcd[Abs(x.n), Abs(y.n)]
                     g2 == Gcd[x.d, y.d]
                 IN Fin[(x.n \div g1) * (y.d \div g2) * Sign(y),
                        (x.d \div g2) * (Abs(y.n) \div g1)]
      [] x.k = "fin" -> Fin[0, 1]
      [] y.k = "fin" -> IF Sign(x) * (IF Sign(y) < 0 THEN -1 ELSE 1) > 0 THEN PInf ELSE NInf
      [] OTHER -> NaN

\* lo <= x <= hi for a finite x and integers lo, hi
InRange(x, lo, hi) == IsFinite(x) /\ lo * x.d <= x.n /\ x.n <= hi * x.d

(***************************************************************************)
(* Rasters.  A raster file is its profile (width, height, affine           *)
(* transform, CRS, nodata, dtype) and one band of pixels px[row][col],     *)
(* row 1 at the top.  The transform is north-up: x = c + a*col,            *)
(* y = f + e*row with e = -a.  crs is an EPSG code, 0 for a raster without *)
(* CRS.  resampling names the rule that produced the pixels: "none" for    *)
(* data written as computed, "bilinear"/"nearest" for the output of        *)
(* rasterio.warp.reproject.  overviews: the file carries a pyramid.        *)
(***************************************************************************)
Affine(a, c, f) == [a |-> a, c |-> c, e |-> -a, f |-> f]

Raster(w, h, t, crs, hasNodata, nodata, dtype, px) ==
    [width |-> w, height |-> h, transform |-> t, crs |-> crs,
     hasNodata |-> hasNodata, nodata |-> nodata, dtype |-> dtype, px |-> px,
     resampling |-> "none", overviews |-> FALSE]

\* the value of locals that are not bound
None == [k |-> "none"]

(***************************************************************************)
(* compute_ndvi                                                            *)
(***************************************************************************)
\* scale, offset = 0.0000275, -0.2
scale == Fin[275, 10000000]

offset == Fin[-2, 10]

\* nodata=-9999.0 of the output profile, and the fill of np.where
NODATA == Fin[-9999, 1]

\* variant of SameGrid: only the shapes are compared
SameShape(r4, r5) == r4.width = r5.width /\ r4.height = r5.height

\* not (r4.width, r4.height, r4.transform) != (r5.width, r5.height, r5.transform)
SameGrid(r4, r5) ==
    <<r4.width, r4.height, r4.transform>> = <<r5.width, r5.height, r5.transform>>

\* r.read(1).astype("float32") * scale + offset
ScaleBand(r) ==
    [row \in 1..r.height |-> [col \in 1..r.width |->
        Add[Mul[r.px[row][col], scale], offset]]]

\* invalid = ~np.isfinite(red) | ~np.isfinite(nir)
InvalidMask(red, nir) ==
    [row \in DOMAIN red |-> [col \in DOMAIN red[row] |->
        ~IsFinite(red[row][col]) \/ ~IsFinite(nir[row][col])]]

\* ndvi = (nir - red) / (nir + red); ndvi[invalid] = np.nan
NdviArray(red, nir) ==
    LET invalid == InvalidMask(red, nir)
    IN [row \in DOMAIN red |-> [col \in DOMAIN red[row] |->
          IF invalid[row][col] THEN NaN
          ELSE Div[Sub[nir[row][col], red[row][col]],
                   Add[nir[row][col], red[row][col]]]]]

\* variant of NdviOut: the quotient is written as computed
NdviOutUnfilled(ndvi) == ndvi

\* ndvi_out = np.where(np.isfinite(ndvi), ndvi, -9999.0).astype("float32")
NdviOut(ndvi) ==
    [row \in DOMAIN ndvi |-> [col \in DOMAIN ndvi[row] |->
        IF IsFinite(ndvi[row][col]) THEN ndvi[row][col] ELSE NODATA]]

\* profile = r4.profile.copy(); profile.update(dtype="float32", count=1, nodata=-9999.0, ...)
NdviRaster(r4, ndvi_out) ==
    Raster(r4.width, r4.height, r4.transform, r4.crs, TRUE, NODATA, "float32", ndvi_out)

(***************************************************************************)
(* Geometry.  The AOI geometry, already in the raster's CRS, is an         *)
(* axis-aligned rectangle [x0,x1] x [y0,y1] grown by a disc of radius r    *)
(* (r = 0 for the geometry as read; shapely's buffer(d) adds d to r).      *)
(* A geometry's x0, y0, x1, y1 and r are in HALVES of the raster's linear  *)
(* unit, so that a gap shorter than the 1.0 fallback distance can be       *)
(* drawn; a transform's a, c, e, f are in whole units.  A buffered         *)
(* rectangle's arcs are polygonal in shapely; with half-unit coordinates   *)
(* no pixel centre and no footprint corner falls between the polygon and   *)
(* the true arc.                                                           *)
(***************************************************************************)
Max(a, b) == IF a > b THEN a ELSE b

Min(a, b) == IF a < b THEN a ELSE b

\* floor(n / a) and ceil(n / a) for a > 0
Floor(n, a) == n \div a

Ceil(n, a) == -((-n) \div a)

Rect(x0, y0, x1, y1) == [empty |-> FALSE, x0 |-> x0, y0 |-> y0, x1 |-> x1, y1 |-> y1, r |-> 0]

EmptyGeom == [empty |-> TRUE, x0 |-> 0, y0 |-> 0, x1 |-> 0, y1 |-> 0, r |-> 0]

\* geom.buffer(d), d in whole units
Buffer(g, d) == IF g.empty THEN g ELSE [g EXCEPT !.r = g.r + 2 * d]

\* ras_bounds = array_bounds(src.height, src.width, src.transform); box(*ras_bounds)
Footprint(r) ==
    Rect(2 * r.transform.c,
         2 * (r.transform.f + r.transform.e * r.height),
         2 * (r.transform.c + r.transform.a * r.width),
         2 * r.transform.f)

\* squared distance between the rectangle of g and the box b
Dist2(g, b) ==
    LET dx == Max(0, Max(b.x0 - g.x1, g.x0 - b.x1))
        dy == Max(0, Max(b.y0 - g.y1, g.y0 - b.y1))
    IN dx * dx + dy * dy

\* geom.intersects(ras_poly_dst): closed sets, so touching counts
Intersects(g, b) == ~g.empty /\ Dist2(g, b) <= g.r * g.r

\* the fallback distance of geom.buffer(1.0)
BUFFER_DIST == 1

\* variant of OverlapGeom: the buffered geometry is used without retesting it
OverlapGeomUntested(geom, ras_poly) ==
    IF Intersects(geom, ras_poly) THEN geom ELSE Buffer(geom, BUFFER_DIST)

\* variant of OverlapGeom: the buffered geometry decides, the original is returned
OverlapGeomOriginal(geom, ras_poly) ==
    IF ~Intersects(geom, ras_poly) /\ ~Intersects(Buffer(geom, BUFFER_DIST), ras_poly)
    THEN None
    ELSE geom

\* the overlap decision of clip_raster_to_aoi (lines 93-97): the geometry to mask
\* with, or None where the code raises
OverlapGeom(geom, ras_poly) ==
    IF ~Intersects(geom, ras_poly)
    THEN IF ~Intersects(Buffer(geom, BUFFER_DIST), ras_poly)
         THEN None
         ELSE Buffer(geom, BUFFER_DIST)
    ELSE geom

(***************************************************************************)
(* rasterio.mask.mask(src, shapes=[geom], crop=True, nodata=src.nodata)    *)
(***************************************************************************)
\* geometry_window: the geometry's bounds in pixel coordinates, floor/ceil,
\* intersected with the raster's window; width or height <= 0 is a WindowError
GeometryWindow(ds, g) ==
    LET t == ds.transform
        cs == Floor(g.x0 - g.r - 2 * t.c, 2 * t.a)
        ce == Ceil(g.x1 + g.r - 2 * t.c, 2 * t.a)
        rs == Floor(2 * t.f - (g.y1 + g.r), 2 * t.a)
        re == Ceil(2 * t.f - (g.y0 - g.r), 2 * t.a)
        c0 == Max(0, cs)
        r0 == Max(0, rs)
    IN [col_off |-> c0, row_off |-> r0,
        width |-> Min(ds.width, ce) - c0, height |-> Min(ds.height, re) - r0]

\* rasterize: a pixel is inside iff its centre is (all_touched=False).  The centre
\* of pixel (row, col) in half units is (2c + a(2 col - 1), 2f - a(2 row - 1)).
PixelInside(ds, g, row, col) ==
    LET t == ds.transform
        x2 == 2 * t.c + t.a * (2 * col - 1)
        y2 == 2 * t.f - t.a * (2 * row - 1)
        dx == Max(0, Max(g.x0 - x2, x2 - g.x1))
        dy == Max(0, Max(g.y0 - y2, y2 - g.y1))
    IN dx * dx + dy * dy <= g.r * g.r

\* mask(): the fill is the nodata argument (here src.nodata), else the dataset's
\* nodata, else 0
MaskFill(src) == IF src.hasNodata THEN src.nodata ELSE Fin[0, 1]

\* dataset.read(window=window, masked=True), mask |= shape_mask, filled(nodata)
MaskArray(src, g, win) ==
    [row \in 1..win.height |-> [col \in 1..win.width |->
        LET v == src.px[win.row_off + row][win.col_off + col]
        IN IF ~PixelInside(src, g, win.row_off + row, win.col_off + col)
              \/ (src.hasNodata /\ v = src.nodata)
           THEN MaskFill(src) ELSE v]]

\* variant of WindowTransform: the column offset is applied with the wrong sign
WindowTransformMirrored(src, win) ==
    Affine(src.transform.a,
           src.transform.c - src.transform.a * win.col_off,
           src.transform.f + src.transform.e * win.row_off)

\* dataset.window_transform(window)
WindowTransform(src, win) ==
    Affine(src.transform.a,
           src.transform.c + src.transform.a * win.col_off,
           src.transform.f + src.transform.e * win.row_off)

\* out_meta = src.meta.copy(); out_meta.update(height, width, transform)
ClippedRaster(src, out_arr, out_transform) ==
    [src EXCEPT !.height = Len(out_arr), !.width = Len(out_arr[1]),
                !.transform = out_transform, !.px = out_arr, !.overviews = FALSE]

(***************************************************************************)
(* Reprojection.  The destination grid of calculate_default_transform and  *)
(* the resampled values are not computed: the output keeps the source's    *)
(* grid numbers and pixels and records the resampling rule that produced   *)
(* them.                                                                   *)
(***************************************************************************)
\* _reproject_raster: kwargs = src.meta.copy(); crs, transform, width, height updated;
\* every band resampled with Resampling.bilinear
ReprojectRaster(src, target_crs) ==
    [src EXCEPT !.crs = target_crs, !.resampling = "bilinear", !.overviews = FALSE]

\* _reproject_to_epsg, the path taken when src_epsg # target_epsg
ReprojectToEpsg(src, target_epsg) ==
    [src EXCEPT !.crs = target_epsg,
                !.resampling = IF src.dtype = "float32" \/ src.dtype = "float64"
                               THEN "bilinear" ELSE "nearest",
                !.overviews = FALSE]

(***************************************************************************)
(* State.  entry names the function that was called: main.run_pipeline, or *)
(* compute_ndvi / clip_raster_to_aoi called directly (as tests/test_ndvi   *)
(* calls compute_ndvi), or run_loader or one of its helpers called         *)
(* directly.  scenes is the list download_landsat_scenes returns, aoi the  *)
(* AOI file, opts the products section of settings.yaml, env the database  *)
(* server's behaviour.  disk maps the path of each raster written under    *)
(* data/processed to its content.                                          *)
(* red, nir, ndvi_out, geom, out are the locals of the running function.   *)
(* attempted, reads, masked, reprojections and ndvi_full/ndvi_clipped      *)
(* record what has happened: the scenes whose try block was entered, the   *)
(* bands read, the rasters handed to mask(), every call of a reprojection  *)
(* function, and the scene ids whose insert safe_execute reported as done. *)
(* target_epsg, c, attempt, conn, count are locals of run_loader and its   *)
(* helpers (the working CRS, the centroid, the connection attempt, the     *)
(* connection, load_aois' counter); tx is the open transaction and db the  *)
(* committed rows.                                                         *)
(***************************************************************************)
VARIABLES entry, scenes, aoi, opts, env,
          pc, i, success_count, failure_count, failures, error, attempted,
          red, nir, ndvi_out, geom, out,
          disk, reads, masked, reprojections, ndvi_full, ndvi_clipped,
          target_epsg, c, attempt, conn, tx, db, count

inputs == <<entry, scenes, aoi, opts, env>>

\* the state of run_loader: the working CRS, the centroid handed to
\* _utm_epsg_for_lonlat, the connection attempts made, the connection, the rows of
\* the open transaction, the committed rows, and the count load_aois logs
session == <<target_epsg, c, attempt, conn, tx, db, count>>

ctl == <<pc, i, success_count, failure_count, failures, error, attempted>>

locals == <<red, nir, ndvi_out, geom, out>>

effects == <<disk, reads, masked, reprojections, ndvi_full, ndvi_clipped>>

vars == <<inputs, ctl, locals, effects, session>>

\* the scene of the running loop iteration (or of the direct call)
scene == scenes[i]

scene_id == scene.scene_id

\* os.path.join(PROCESSED_DIR, f"{scene_id}_NDVI.tif") and the other output names
ndvi_output == <<scene_id, "NDVI">>

clipped_output == <<scene_id, "NDVI_clipped">>

reproj_path == <<scene_id, "NDVI_clipped_viz">>

ClearLocals ==
    /\ red' = <<>>
    /\ nir' = <<>>
    /\ ndvi_out' = <<>>
    /\ geom' = EmptyGeom
    /\ out' = <<>>

\* variant of Raise: the exception leaves run_pipeline
RaiseAborting(msg) ==
    /\ pc' = "raised"
    /\ error' = msg
    /\ UNCHANGED <<i, success_count, failure_count, failures, attempted>>
    /\ ClearLocals

\* variant of Raise: the handler records the failure without counting it
RaiseUncounted(msg) ==
    /\ IF entry = "run_pipeline"
       THEN /\ failures' = Append(failures, <<scene_id, msg>>)
            /\ i' = i + 1
            /\ pc' = "scene"
            /\ UNCHANGED <<error, failure_count>>
       ELSE /\ pc' = "raised"
            /\ error' = msg
            /\ UNCHANGED <<i, failure_count, failures>>
    /\ UNCHANGED <<success_count, attempted>>
    /\ ClearLocals

\* an exception raised inside the running function.  In run_pipeline the scene's
\* except Exception records it and the loop goes on; a direct call propagates it.
Raise(msg) ==
    /\ IF entry = "run_pipeline"
       THEN /\ failures' = Append(failures, <<scene_id, msg>>)
            /\ failure_count' = failure_count + 1
            /\ i' = i + 1
            /\ pc' = "scene"
            /\ UNCHANGED error
       ELSE /\ pc' = "raised"
            /\ error' = msg
            /\ UNCHANGED <<i, failure_count, failures>>
    /\ UNCHANGED <<success_count, attempted>>
    /\ ClearLocals

(***************************************************************************)
(* run_pipeline                                                            *)
(***************************************************************************)
\* config, AOI file, scenes = download_landsat_scenes(); if not scenes: return
RunPipelineStart ==
    /\ entry = "run_pipeline"
    /\ pc = "start"
    /\ pc' = IF scenes = <<>> THEN "done" ELSE "scene"
    /\ UNCHANGED <<i, success_count, failure_count, failures, error, attempted>>
    /\ UNCHANGED <<inputs, locals, effects, session>>

\* for s in scenes: scene_id = s.get("scene_id", "unknown"); try:
SceneBegin ==
    /\ pc = "scene"
    /\ i <= Len(scenes)
    /\ pc' = "try"
    /\ attempted' = Append(attempted, i)
    /\ UNCHANGED <<i, success_count, failure_count, failures, error>>
    /\ UNCHANGED <<inputs, locals, effects, session>>

\* b4_path = s['B4']; b5_path = s['B5'] (KeyError for a missing band), the output
\* paths, and the call of compute_ndvi
SceneBands ==
    /\ pc = "try"
    /\ IF scene.hasB4 /\ scene.hasB5
       THEN /\ pc' = "ndvi_open"
            /\ UNCHANGED <<i, success_count, failure_count, failures, error, attempted>>
            /\ UNCHANGED locals
       ELSE Raise("KeyError")
    /\ UNCHANGED <<inputs, effects, session>>

\* the loop is exhausted: the summary is logged and run_loader() is called
Summary ==
    /\ pc = "scene"
    /\ i > Len(scenes)
    /\ pc' = "connect"
    /\ UNCHANGED <<i, success_count, failure_count, failures, error, attempted>>
    /\ UNCHANGED <<inputs, locals, effects, session>>

(***************************************************************************)
(* compute_ndvi(b4_path, b5_path, out_path)                                *)
(***************************************************************************)
\* open both rasters and compare their grids
NdviOpen ==
    /\ pc = "ndvi_open"
    /\ IF SameGrid(scene.B4, scene.B5)
       THEN /\ pc' = "ndvi_read"
            /\ UNCHANGED <<i, success_count, failure_count, failures, error, attempted>>
            /\ UNCHANGED locals
       ELSE Raise("B4 and B5 rasters are not on the same grid.")
    /\ UNCHANGED <<inputs, effects, session>>

\* red = r4.read(1)...; nir = r5.read(1)...
NdviRead ==
    /\ pc = "ndvi_read"
    /\ red' = ScaleBand(scene.B4)
    /\ nir' = ScaleBand(scene.B5)
    /\ reads' = reads \cup {<<scene_id, "B4">>, <<scene_id, "B5">>}
    /\ pc' = "ndvi_compute"
    /\ UNCHANGED <<i, success_count, failure_count, failures, error, attempted>>
    /\ UNCHANGED <<ndvi_out, geom, out>>
    /\ UNCHANGED <<disk, masked, reprojections, ndvi_full, ndvi_clipped>>
    /\ UNCHANGED <<inputs, session>>

\* invalid, ndvi, ndvi_out
NdviCompute ==
    /\ pc = "ndvi_compute"
    /\ ndvi_out' = NdviOut(NdviArray(red, nir))
    /\ pc' = "ndvi_write"
    /\ UNCHANGED <<i, success_count, failure_count, failures, error, attempted>>
    /\ UNCHANGED <<red, nir, geom, out>>
    /\ UNCHANGED <<inputs, effects, session>>

\* with rasterio.open(out_path, "w", **profile) as dst: dst.write(ndvi_out, 1); return
NdviWrite ==
    /\ pc = "ndvi_write"
    /\ disk' = (ndvi_output :> NdviRaster(scene.B4, ndvi_out)) @@ disk
    /\ pc' = IF entry = "run_pipeline" THEN "clip_open" ELSE "returned"
    /\ ClearLocals
    /\ UNCHANGED <<i, success_count, failure_count, failures, error, attempted>>
    /\ UNCHANGED <<reads, masked, reprojections, ndvi_full, ndvi_clipped>>
    /\ UNCHANGED <<inputs, session>>


(***************************************************************************)
(* clip_raster_to_aoi(raster_path, aoi_path, out_path)                     *)
(***************************************************************************)
\* the raster opened as src
src == disk[ndvi_output]

\* the exception lines 73-91 raise for this AOI and raster, "" when they raise none:
\* gpd.read_file fails; the file holds no feature; aoi.to_crs(dst_crs) fails (also
\* when the raster has no CRS); the union is empty after reprojection
AoiError(a, r) ==
    CASE a.status = "unreadable" -> "DriverError"
      [] a.status = "empty" -> "AOI is empty"
      [] a.status = "noproj" \/ r.crs = 0 -> "Failed to reproject AOI to raster CRS"
      [] a.geom.empty -> "AOI geometry became empty after reprojection."
      [] OTHER -> ""

\* open the raster, read the AOI, reproject it, union and repair (buffer(0) leaves a
\* valid rectangle as it is)
ClipOpen ==
    /\ pc = "clip_open"
    /\ IF AoiError(aoi, src) = ""
       THEN /\ geom' = Buffer(aoi.geom, 0)
            /\ pc' = "clip_overlap"
            /\ UNCHANGED <<i, success_count, failure_count, failures, error, attempted>>
            /\ UNCHANGED <<red, nir, ndvi_out, out>>
       ELSE Raise(AoiError(aoi, src))
    /\ UNCHANGED <<inputs, effects, session>>

\* if not geom.intersects(ras_poly_dst): ... raise / geom = geom.buffer(1.0)
ClipOverlap ==
    /\ pc = "clip_overlap"
    /\ LET g == OverlapGeom(geom, Footprint(src))
       IN IF g = None
          THEN Raise("Input shapes do not overlap raster.")
          ELSE /\ geom' = g
               /\ pc' = "clip_mask"
               /\ UNCHANGED <<i, success_count, failure_count, failures, error, attempted>>
               /\ UNCHANGED <<red, nir, ndvi_out, out>>
    /\ UNCHANGED <<inputs, effects, session>>

\* out_arr, out_transform = mask(src, shapes=[geom], crop=True, nodata=src.nodata);
\* mask raises ValueError when the geometry's window misses the raster
ClipMask ==
    /\ pc = "clip_mask"
    /\ masked' = masked \cup {[path |-> ndvi_output, geom |-> geom]}
    /\ LET win == GeometryWindow(src, geom)
       IN IF win.width <= 0 \/ win.height <= 0
          THEN Raise("Input shapes do not overlap raster.")
          ELSE /\ out' = <<MaskArray(src, geom, win), WindowTransform(src, win)>>
               /\ pc' = "clip_write"
               /\ UNCHANGED <<i, success_count, failure_count, failures, error, attempted>>
               /\ UNCHANGED <<red, nir, ndvi_out, geom>>
    /\ UNCHANGED <<disk, reads, reprojections, ndvi_full, ndvi_clipped>>
    /\ UNCHANGED <<inputs, session>>

\* with rasterio.open(out_path, "w", **out_meta) as dst: dst.write(out_arr)
ClipWrite ==
    /\ pc = "clip_write"
    /\ disk' = (clipped_output :> ClippedRaster(src, out[1], out[2])) @@ disk
    /\ pc' = "clip_products"
    /\ UNCHANGED <<i, success_count, failure_count, failures, error, attempted>>
    /\ UNCHANGED locals
    /\ UNCHANGED <<reads, masked, reprojections, ndvi_full, ndvi_clipped>>
    /\ UNCHANGED <<inputs, session>>

\* the record of one call of a reprojection function
ReprojCall(fn, path, r, dst_crs, wrote, resampling) ==
    [fn |-> fn, path |-> path, src_crs |-> r.crs, dst_crs |-> dst_crs,
     dtype |-> r.dtype, wrote |-> wrote, resampling |-> resampling]

\* build overviews and/or reproject (lines 108-125), then return; in run_pipeline
\* the scene is then counted: success_count += 1
ClipProducts ==
    /\ pc = "clip_products"
    /\ LET clipped == [disk[clipped_output] EXCEPT !.overviews = opts.build_ovr]
           viz == [ReprojectRaster(clipped, opts.target_crs)
                      EXCEPT !.overviews = opts.build_ovr]
       IN IF opts.target_crs # 0
          THEN /\ disk' = (reproj_path :> viz) @@ (clipped_output :> clipped) @@ disk
               /\ reprojections' = reprojections \cup
                     {ReprojCall("_reproject_raster", clipped_output, clipped,
                                 opts.target_crs, TRUE, "bilinear")}
          ELSE /\ disk' = (clipped_output :> clipped) @@ disk
               /\ UNCHANGED reprojections
    /\ IF entry = "run_pipeline"
       THEN /\ success_count' = success_count + 1
            /\ i' = i + 1
            /\ pc' = "scene"
       ELSE /\ pc' = "returned"
            /\ UNCHANGED <<i, success_count>>
    /\ ClearLocals
    /\ UNCHANGED <<failure_count, failures, error, attempted>>
    /\ UNCHANGED <<reads, masked, ndvi_full, ndvi_clipped>>
    /\ UNCHANGED <<inputs, session>>

(***************************************************************************)
(* run_loader.  The database is empty when the run starts.  A row is       *)
(* <<table, key>>; env.faults are the rows whose INSERT the server         *)
(* rejects.  env.down is the number of connection attempts that fail with  *)
(* OperationalError before the server accepts one, env.other the attempt   *)
(* that fails with another exception (0: none).  File names are taken to   *)
(* be well-formed Landsat names and rasters to have a positive size.       *)
(***************************************************************************)
\* DEFAULT_TARGET_EPSG = int(os.getenv("DEFAULT_TARGET_EPSG", "32635"))
DEFAULT_TARGET_EPSG == 32635

\* for attempt in range(1, 31)
MAX_TRIES == 30

\* a point without coordinates: the centroid of an empty geometry (nan, nan)
NoPoint == <<>>

\* variant of UtmZone: the zone is rounded up
UtmZoneCeil(lon2) == Ceil(lon2 + 360, 12) + 1

\* zone = int(math.floor((lon + 180.0) / 6.0) + 1), lon2 = 2 lon
UtmZone(lon2) == Floor(lon2 + 360, 12) + 1

\* _utm_epsg_for_lonlat(lon, lat) for lon2 = 2 lon, lat2 = 2 lat
UtmEpsgForLonLat(lon2, lat2) ==
    (IF lat2 >= 0 THEN 32600 ELSE 32700) + UtmZone(lon2)

\* an exception leaves run_loader (finally: cursor.close(); conn.close()) or the
\* function called directly; the open transaction is lost
LoaderRaise(msg) ==
    /\ pc' = "raised"
    /\ error' = msg
    /\ conn' = IF conn = "open" THEN "closed" ELSE conn
    /\ tx' = {}

\* where run_loader goes on after a call, "returned" for a direct call
After(fn, next) == IF entry = fn THEN "returned" ELSE next

\* variant of ConnectAttempt: "except Exception" instead of "except
\* OperationalError", every failure is retried
ConnectAttemptCatchAll ==
    /\ pc = "connect"
    /\ attempt < MAX_TRIES
    /\ attempt' = attempt + 1
    /\ IF attempt + 1 > env.down /\ attempt + 1 # env.other
       THEN /\ conn' = "open"
            /\ pc' = After("_connect_with_retry", "choose_epsg")
            /\ UNCHANGED error
       ELSE IF attempt + 1 = MAX_TRIES
            THEN /\ pc' = "raised"
                 /\ error' = "Database never became reachable."
                 /\ UNCHANGED conn
            ELSE /\ pc' = "connect"
                 /\ UNCHANGED <<error, conn>>
    /\ UNCHANGED <<i, success_count, failure_count, failures, attempted>>
    /\ UNCHANGED <<target_epsg, c, tx, db, count>>
    /\ UNCHANGED <<inputs, locals, effects>>

\* one iteration of the loop of _connect_with_retry; after the 30th OperationalError
\* the loop is exhausted and RuntimeError is raised
ConnectAttempt ==
    /\ pc = "connect"
    /\ attempt < MAX_TRIES
    /\ attempt' = attempt + 1
    /\ IF attempt + 1 = env.other
       THEN /\ pc' = "raised"
            /\ error' = "Exception"
            /\ UNCHANGED conn
       ELSE IF attempt + 1 > env.down
            THEN /\ conn' = "open"
                 /\ pc' = After("_connect_with_retry", "choose_epsg")
                 /\ UNCHANGED error
            ELSE IF attempt + 1 = MAX_TRIES
                 THEN /\ pc' = "raised"
                      /\ error' = "Database never became reachable."
                      /\ UNCHANGED conn
                 ELSE /\ pc' = "connect"
                      /\ UNCHANGED <<error, conn>>
    /\ UNCHANGED <<i, success_count, failure_count, failures, attempted>>
    /\ UNCHANGED <<target_epsg, c, tx, db, count>>
    /\ UNCHANGED <<inputs, locals, effects>>

\* choose_target_epsg up to the call of _utm_epsg_for_lonlat: gpd.read_file, the
\* AOI's own code when it is not 4326 or 4258, else the centroid
ChooseTargetEpsg ==
    /\ pc = "choose_epsg"
    /\ IF aoi.status = "unreadable"
       THEN /\ LoaderRaise("DriverError")
            /\ UNCHANGED <<target_epsg, c>>
       ELSE IF aoi.crs # 0 /\ aoi.crs \notin {4326, 4258}
            THEN /\ target_epsg' = aoi.crs
                 /\ pc' = After("choose_target_epsg", "load_aois")
                 /\ UNCHANGED <<c, error, conn, tx>>
            ELSE /\ c' = aoi.centroid
                 /\ pc' = "utm"
                 /\ UNCHANGED <<target_epsg, error, conn, tx>>
    /\ UNCHANGED <<i, success_count, failure_count, failures, attempted>>
    /\ UNCHANGED <<attempt, db, count>>
    /\ UNCHANGED <<inputs, locals, effects>>

\* _utm_epsg_for_lonlat(float(c.x), float(c.y)); math.floor raises for nan, and
\* choose_target_epsg then returns DEFAULT_TARGET_EPSG
UtmEpsg ==
    /\ pc = "utm"
    /\ IF c = NoPoint
       THEN IF entry = "_utm_epsg_for_lonlat"
            THEN /\ pc' = "raised"
                 /\ error' = "ValueError"
                 /\ UNCHANGED target_epsg
            ELSE /\ target_epsg' = DEFAULT_TARGET_EPSG
                 /\ pc' = After("choose_target_epsg", "load_aois")
                 /\ UNCHANGED error
       ELSE /\ target_epsg' = UtmEpsgForLonLat(c[1], c[2])
            /\ pc' = IF entry = "_utm_epsg_for_lonlat" THEN "returned"
                     ELSE After("choose_target_epsg", "load_aois")
            /\ UNCHANGED error
    /\ UNCHANGED <<i, success_count, failure_count, failures, attempted>>
    /\ UNCHANGED <<c, attempt, conn, tx, db, count>>
    /\ UNCHANGED <<inputs, locals, effects>>

\* safe_execute(cursor, sql, params) with transaction t open: True and the row
\* added, or False after cursor.connection.rollback()
SafeExecute(row, t) ==
    IF row \in env.faults
    THEN [ok |-> FALSE, tx |-> {}]
    ELSE [ok |-> TRUE, tx |-> t \cup {row}]

\* the insert loop of a load phase over rows in their order: the transaction left
\* open and the rows whose safe_execute returned True
RECURSIVE InsertAll(_, _, _)
InsertAll(rows, t, done) ==
    IF rows = <<>>
    THEN [tx |-> t, ok |-> done]
    ELSE LET res == SafeExecute(Head(rows), t)
         IN InsertAll(Tail(rows), res.tx,
                      IF res.ok THEN done \cup {Head(rows)} ELSE done)

\* the orders in which glob() may yield the files of S
Orders(S) ==
    {f \in [1..Cardinality(S) -> S] :
        \A a, b \in 1..Cardinality(S) : f[a] = f[b] => a = b}

\* the rows of a table among R
Table(name, R) == {row \in R : row[1] = name}

\* drop_raster_constraints; load_aois (to_crs(4326) fails for an AOI that cannot be
\* reprojected); conn.commit(); aoi_id = get_aoi_id(cursor, "AOI"), which raises
\* when the table holds no AOI
LoadAois ==
    /\ pc = "load_aois"
    /\ IF aoi.status = "noproj"
       THEN /\ LoaderRaise("Failed to reproject AOI")
            /\ UNCHANGED <<db, count>>
       ELSE LET res == InsertAll([n \in 1..Len(aoi.rows) |-> <<"aois", aoi.rows[n]>>],
                                 tx, {})
            IN /\ count' = Cardinality(res.ok)
               /\ db' = db \cup res.tx
               /\ IF Table("aois", db \cup res.tx) = {}
                  THEN LoaderRaise("No AOIs found in database. You must load AOIs first.")
                  ELSE /\ tx' = {}
                       /\ pc' = "load"
                       /\ UNCHANGED <<error, conn>>
    /\ UNCHANGED <<i, success_count, failure_count, failures, attempted>>
    /\ UNCHANGED <<target_epsg, c, attempt>>
    /\ UNCHANGED <<inputs, locals, effects>>

\* the scene ids processed, and the files a phase's glob finds (the pipeline writes
\* no other file)
SceneIds == {scenes[k].scene_id : k \in 1..Len(scenes)}

Files(kind) == {path \in DOMAIN disk : path[2] = kind}

\* _reproject_to_epsg(src_path, target_epsg): raises for a raster without CRS
\* (the caller skips the file), returns src_path when the CRS is the target's,
\* else writes a reprojected temporary file
ReprojectToEpsgCall(path, target) ==
    LET r == disk[path]
    IN IF r.crs = target
       THEN ReprojCall("_reproject_to_epsg", path, r, target, FALSE, "none")
       ELSE ReprojCall("_reproject_to_epsg", path, r, target, TRUE,
                       ReprojectToEpsg(r, target).resampling)

\* the rows a raster phase inserts for the files of an order
RowsOf(table, order) == [n \in 1..Len(order) |-> <<table, order[n][1]>>]

\* load_ndvi_full(cursor, ndvi_dir, target_epsg); conn.commit()
LoadNdviFull ==
    /\ pc = "load"
    /\ LET ok == {path \in Files("NDVI") : disk[path].crs # 0}
       IN \E order \in Orders(ok) :
             LET res == InsertAll(RowsOf("ndvi_full", order), tx, {})
             IN /\ reprojections' = reprojections \cup
                      {ReprojectToEpsgCall(path, target_epsg) : path \in ok}
                /\ ndvi_full' = {row[2] : row \in res.ok}
                /\ db' = db \cup res.tx
    /\ tx' = {}
    /\ pc' = "load_clipped"
    /\ UNCHANGED <<i, success_count, failure_count, failures, error, attempted>>
    /\ UNCHANGED <<disk, reads, masked, ndvi_clipped>>
    /\ UNCHANGED <<target_epsg, c, attempt, conn, count>>
    /\ UNCHANGED <<inputs, locals>>

\* load_ndvi_clipped(cursor, ndvi_dir, aoi_id, target_epsg); conn.commit()
LoadNdviClipped ==
    /\ pc = "load_clipped"
    /\ LET ok == {path \in Files("NDVI_clipped") :
                     <<"ndvi_full", path[1]>> \in db /\ disk[path].crs # 0}
       IN \E order \in Orders(ok) :
             LET res == InsertAll(RowsOf("ndvi_clipped", order), tx, {})
             IN /\ reprojections' = reprojections \cup
                      {ReprojectToEpsgCall(path, target_epsg) : path \in ok}
                /\ ndvi_clipped' = {row[2] : row \in res.ok}
                /\ db' = db \cup res.tx
    /\ tx' = {}
    /\ pc' = "load_viz"
    /\ UNCHANGED <<i, success_count, failure_count, failures, error, attempted>>
    /\ UNCHANGED <<disk, reads, masked, ndvi_full>>
    /\ UNCHANGED <<target_epsg, c, attempt, conn, count>>
    /\ UNCHANGED <<inputs, locals>>

\* load_ndvi_viz(cursor, ndvi_dir, aoi_id): reprojects to EPSG:3857; conn.commit();
\* add_raster_constraints_metadata; finally: cursor.close(); conn.close()
LoadNdviViz ==
    /\ pc = "load_viz"
    /\ LET ok == {path \in Files("NDVI_clipped_viz") :
                     /\ <<"ndvi_full", path[1]>> \in db
                     /\ <<"ndvi_clipped", path[1]>> \in db
                     /\ disk[path].crs # 0}
       IN \E order \in Orders(ok) :
             LET res == InsertAll(RowsOf("ndvi_viz", order), tx, {})
             IN /\ reprojections' = reprojections \cup
                      {ReprojectToEpsgCall(path, 3857) : path \in ok}
                /\ db' = db \cup res.tx
    /\ tx' = {}
    /\ conn' = "closed"
    /\ pc' = After("run_loader", "done")
    /\ UNCHANGED <<i, success_count, failure_count, failures, error, attempted>>
    /\ UNCHANGED <<disk, reads, masked, ndvi_full, ndvi_clipped>>
    /\ UNCHANGED <<target_epsg, c, attempt, count>>
    /\ UNCHANGED <<inputs, locals>>

(***************************************************************************)
(* Inputs.  Bounds of the model.                                           *)
(***************************************************************************)
\* longest scene list of a run
MaxScenes == 3

\* width and height of the rasters of a run
GridW == 2

GridH == 1

\* widest raster of a direct compute_ndvi call
MaxWidth == 2

\* a digital number
DN(n) == Fin[n, 1]

\* raw pixel values: the sensor fill 0, the dummy bands' 1000 and 3000, values whose
\* reflectance is negative (7000), positive (8000, 65535), zero (80000/11, in a
\* float band) and 0.2 (160000/11), and the IEEE specials of a float band
RawValues ==
    {DN(0), DN(1000), DN(3000), DN(7000), DN(8000), DN(65535),
     Fin[80000, 11], Fin[160000, 11], NaN, PInf, NInf}

SmallValues == {DN(1000), DN(8000), Fin[80000, 11], NaN}

\* the grid of the rasters of a run: GridW x GridH pixels of size 2, footprint
\* [0, 2 GridW] x [0, 2 GridH]
T0 == Affine(2, 0, 2 * GridH)

Transforms == {T0, Affine(2, 1, 2 * GridH), Affine(1, 0, 2 * GridH)}

\* tests/test_ndvi.create_dummy_band: a uint16 band filled with one value, nodata 0
DummyBand(w, h, t, crs, value) ==
    Raster(w, h, t, crs, TRUE, DN(0), "uint16",
           [row \in 1..h |-> [col \in 1..w |-> value]])

Scene(id, hasB4, hasB5, b4, b5) ==
    [scene_id |-> id, hasB4 |-> hasB4, hasB5 |-> hasB5, B4 |-> b4, B5 |-> b5]

\* the scenes a run may hold at position k: a good pair, a descriptor without B4,
\* a pair on different grids, a good pair that lies away from the AOI
SceneKinds == {"good", "no_b4", "mismatch", "away"}

SceneOfKind(kind, k) ==
    LET id == ToString(k)
        b4 == DummyBand(GridW, GridH, T0, 32633, DN(1000))
        b5 == DummyBand(GridW, GridH, T0, 32633, DN(3000))
        far == Affine(2, 40, 40)
    IN CASE kind = "good" -> Scene(id, TRUE, TRUE, b4, b5)
         [] kind = "no_b4" -> Scene(id, FALSE, TRUE, b4, b5)
         [] kind = "mismatch" ->
               Scene(id, TRUE, TRUE, b4, DummyBand(GridW + 1, GridH, T0, 32633, DN(3000)))
         [] OTHER ->
               Scene(id, TRUE, TRUE, [b4 EXCEPT !.transform = far],
                     [b5 EXCEPT !.transform = far])

SceneLists ==
    UNION {{[k \in 1..n |-> SceneOfKind(kinds[k], k)] : kinds \in [1..n -> SceneKinds]} :
              n \in 0..MaxScenes}

\* the AOI file: whether it can be read and reprojected, its CRS (0: none), its
\* geometry in the rasters' CRS, the centroid of its union in its own CRS (in half
\* degrees for a geographic CRS) and the names of its features.  The file
\* ensure_aoi_geojson_from_bbox writes has one feature named "AOI" and no CRS
\* member, which is read as EPSG:4326.
Aoi(status, g) ==
    [status |-> status, crs |-> 4326, geom |-> g,
     centroid |-> IF g.empty THEN NoPoint ELSE <<30, 110>>,
     rows |-> IF status = "empty" THEN <<>> ELSE <<"AOI">>]

\* AOI a lying in UTM zone t - 32600 (a geographic file whose centroid is on the
\* zone's central meridian), or given in the projected CRS t
Placed(a, t) ==
    IF t \in 32601..32660
    THEN [a EXCEPT !.crs = 4326,
                   !.centroid = IF a.centroid = NoPoint THEN NoPoint
                                ELSE <<12 * (t - 32600) - 366, 110>>]
    ELSE [a EXCEPT !.crs = t]

\* the footprint of the run's grid, in half units: [0, XMax] x [0, YMax]
XMax == 4 * GridW

YMax == 4 * GridH

\* AOI coordinates reach half a unit beyond the fallback distance
Pad == 2 * BUFFER_DIST + 1

\* an AOI that covers the rasters of a run
CoverAoi == Aoi("ok", Rect(-1, -1, XMax + 1, YMax + 1))

\* the AOI file cannot be read; holds no feature; cannot be reprojected; is empty
\* after reprojection
BadAois ==
    {Aoi("unreadable", EmptyGeom), Aoi("empty", EmptyGeom),
     Aoi("noproj", EmptyGeom), Aoi("ok", EmptyGeom)}

\* covering; partly inside; half a unit away; out of reach
PipelineAois ==
    BadAois \cup
    {CoverAoi,
     Aoi("ok", Rect(3, -1, XMax + 1, YMax + 1)),
     Aoi("ok", Rect(XMax + 1, 0, XMax + 3, YMax)),
     Aoi("ok", Rect(XMax + 3, 0, XMax + 5, YMax))}

Opts == [target_crs : {0, 32633, 3857}, build_ovr : BOOLEAN]

NoOpts == [target_crs |-> 0, build_ovr |-> FALSE]

\* the products options and loader CRS of the runs drawn
RunOpts ==
    {<<NoOpts, 32633>>,
     <<[target_crs |-> 32633, build_ovr |-> TRUE], 32635>>,
     <<[target_crs |-> 3857, build_ovr |-> FALSE], 32633>>,
     <<[target_crs |-> 3857, build_ovr |-> TRUE], 3857>>}

NoFiles == [path \in {} |-> None]

\* the server accepts the first connection and every INSERT
EnvUp == [down |-> 0, other |-> 0, faults |-> {}]

\* the state in which function e is entered, with the AOI file a, the files d on
\* disk, the database environment ev and the point pt as argument
Enter(e, sc, a, o, d, ev, pt) ==
    /\ entry = e
    /\ scenes = sc
    /\ aoi = a
    /\ opts = o
    /\ env = ev
    /\ disk = d
    /\ pc = CASE e = "run_pipeline" -> "start"
              [] e = "compute_ndvi" -> "ndvi_open"
              [] e = "clip_raster_to_aoi" -> "clip_open"
              [] e = "choose_target_epsg" -> "choose_epsg"
              [] e = "_utm_epsg_for_lonlat" -> "utm"
              [] OTHER -> "connect"
    /\ target_epsg = 0
    /\ c = pt
    /\ attempt = 0
    /\ conn = "none"
    /\ tx = {}
    /\ db = {}
    /\ count = 0
    /\ i = 1
    /\ success_count = 0
    /\ failure_count = 0
    /\ failures = <<>>
    /\ error = ""
    /\ attempted = <<>>
    /\ red = <<>>
    /\ nir = <<>>
    /\ ndvi_out = <<>>
    /\ geom = EmptyGeom
    /\ out = <<>>
    /\ reads = {}
    /\ masked = {}
    /\ reprojections = {}
    /\ ndvi_full = {}
    /\ ndvi_clipped = {}

\* the same with the AOI placed for CRS t and a database that is up
Start(e, sc, a, o, t, d) == Enter(e, sc, Placed(a, t), o, d, EnvUp, NoPoint)

\* runs of the pipeline
InitPipeline ==
    \E sc \in SceneLists, a \in PipelineAois, o \in RunOpts :
        Start("run_pipeline", sc, a, o[1], o[2], NoFiles)

\* direct calls of compute_ndvi: every pair of grids with the dummy bands' values
Grids == (1..MaxWidth) \X (1..(GridH + 1)) \X Transforms

InitGrids ==
    \E g4 \in Grids, g5 \in Grids :
        Start("compute_ndvi",
              <<Scene("1", TRUE, TRUE,
                      DummyBand(g4[1], g4[2], g4[3], 4326, DN(1000)),
                      DummyBand(g5[1], g5[2], g5[3], 4326, DN(3000)))>>,
              CoverAoi, NoOpts, 32633, NoFiles)

\* direct calls of compute_ndvi: every pair of pixel rows on one grid
PixelRows ==
    {<<v>> : v \in RawValues} \cup UNION {[1..w -> SmallValues] : w \in 2..MaxWidth}

FloatBand(row) ==
    Raster(Len(row), 1, T0, 4326, FALSE, DN(0), "float32", <<row>>)

InitPixels ==
    \E r4 \in PixelRows, r5 \in PixelRows :
        Start("compute_ndvi",
              <<Scene("1", TRUE, TRUE, FloatBand(r4), FloatBand(r5))>>,
              CoverAoi, NoOpts, 32633, NoFiles)

\* direct calls of clip_raster_to_aoi: a float32 raster on the run's grid, with or
\* without a nodata value, whose pixels are all different, the first 0 and the
\* last -9999
ClipSource(hasNodata, nodata, crs) ==
    Raster(GridW, GridH, T0, crs, hasNodata, nodata, "float32",
           [row \in 1..GridH |-> [col \in 1..GridW |->
               IF row = GridH /\ col = GridW THEN NODATA
               ELSE Fin[(row - 1) * GridW + col - 1, 10]]])

ClipSources ==
    {ClipSource(TRUE, NODATA, 32633), ClipSource(TRUE, DN(0), 32633),
     ClipSource(FALSE, DN(0), 32633)}

\* coordinates on which no pixel centre of the grid lies (the centres are 4k - 2)
Coords(max, n) == {v \in (0 - Pad)..(max + Pad) : \A k \in 1..n : v # 4 * k - 2}

ClipCall(a, o, r) ==
    Start("clip_raster_to_aoi",
          <<Scene("1", TRUE, TRUE,
                  DummyBand(GridW, GridH, T0, 32633, DN(1000)),
                  DummyBand(GridW, GridH, T0, 32633, DN(3000)))>>,
          a, o, 32633, (<<"1", "NDVI">> :> r) @@ NoFiles)

\* every rectangle, without products
InitRects ==
    \E x0 \in Coords(XMax, GridW), x1 \in Coords(XMax, GridW),
       y0 \in Coords(YMax, GridH), y1 \in Coords(YMax, GridH), r \in ClipSources :
        /\ x0 < x1
        /\ y0 < y1
        /\ ClipCall(Aoi("ok", Rect(x0, y0, x1, y1)), NoOpts, r)

\* a raw uint16 band (as create_dummy_band writes it) handed to clip_raster_to_aoi
IntSource == DummyBand(GridW, GridH, T0, 32633, DN(1000))

\* every products option, a raster without CRS and an integer raster, with the AOIs
\* of a run
InitProducts ==
    \E a \in PipelineAois, o \in Opts,
       r \in ClipSources \cup {ClipSource(TRUE, NODATA, 0), IntSource} :
        ClipCall(a, o, r)

\* direct calls of compute_ndvi on dummy bands filled with one value, the bands'
\* nodata value 0 among them
FillValues == {DN(0), DN(1000), DN(3000), DN(65535)}

InitFill ==
    \E v4 \in FillValues, v5 \in FillValues, w \in 1..MaxWidth :
        Start("compute_ndvi",
              <<Scene("1", TRUE, TRUE,
                      DummyBand(w, 1, T0, 4326, v4),
                      DummyBand(w, 1, T0, 4326, v5))>>,
              CoverAoi, NoOpts, 32633, NoFiles)

\* direct calls of _utm_epsg_for_lonlat: every longitude from -186 to 186 degrees
\* in steps of half a degree, latitudes on both sides of the equator, and nan
Lons == (0 - 372)..372

Lats == {0 - 180, 0 - 110, 0 - 1, 0, 1, 110, 180}

InitUtm ==
    \E pt \in (Lons \X Lats) \cup {NoPoint} :
        Enter("_utm_epsg_for_lonlat", <<>>, CoverAoi, NoOpts, NoFiles, EnvUp, pt)

\* direct calls of choose_target_epsg: AOI files without CRS, in three geographic
\* CRSs (WGS 84, ETRS89, NAD83) and in two projected ones, readable or not, with
\* centroids in both hemispheres, on the antimeridian, and of an empty geometry
AoiCrs == {0, 4326, 4258, 4269, 32633, 3857}

Centroids == {NoPoint, <<30, 110>>, <<30, 0 - 110>>, <<0 - 354, 0>>, <<360, 0>>}

InitChoose ==
    \E st \in {"ok", "unreadable"}, crs \in AoiCrs, pt \in Centroids :
        Enter("choose_target_epsg", <<>>,
              [CoverAoi EXCEPT !.status = st, !.crs = crs, !.centroid = pt],
              NoOpts, NoFiles, EnvUp, NoPoint)

\* direct calls of _connect_with_retry: a server that is up, that comes up after
\* up to 29 refused attempts, or never within 30, and attempts that fail with an
\* exception other than OperationalError
Downs == 0..(MAX_TRIES + 1)

Others == {0, 1, 2, MAX_TRIES}

InitConnect ==
    \E dn \in Downs, ot \in Others :
        Enter("_connect_with_retry", <<>>, CoverAoi, NoOpts, NoFiles,
              [down |-> dn, other |-> ot, faults |-> {}], NoPoint)

\* most features of an AOI file, most scenes with products on disk, and most
\* rows the server rejects, in a direct call of run_loader
MaxRows == 2

MaxFiles == 2

MaxFaults == 1

\* the feature names of an AOI file of n features, the first named "AOI"
Names(n) == [k \in 1..n |-> IF k = 1 THEN "AOI" ELSE ToString(k)]

\* the products of scenes 1..n as run_pipeline leaves them on disk
Kinds == {"NDVI", "NDVI_clipped", "NDVI_clipped_viz"}

LoaderDisk(n) ==
    [path \in {ToString(k) : k \in 1..n} \X Kinds |->
        ClipSource(TRUE, NODATA, IF path[2] = "NDVI_clipped_viz" THEN 3857 ELSE 32633)]

\* the rows run_loader tries to insert for an AOI file and the files on disk
AllRows(names, d) ==
    {<<"aois", names[k]>> : k \in 1..Len(names)} \cup
    {<<CASE path[2] = "NDVI" -> "ndvi_full"
          [] path[2] = "NDVI_clipped" -> "ndvi_clipped"
          [] OTHER -> "ndvi_viz", path[1]>> : path \in DOMAIN d}

InitLoader ==
    \E nr \in 0..MaxRows, nf \in 0..MaxFiles, dn \in {0, 1} :
        \E F \in SUBSET AllRows(Names(nr), LoaderDisk(nf)) :
            /\ Cardinality(F) <= MaxFaults
            /\ Enter("run_loader", <<>>, [CoverAoi EXCEPT !.rows = Names(nr)], NoOpts,
                     LoaderDisk(nf), [down |-> dn, other |-> 0, faults |-> F], NoPoint)

Init ==
    \/ InitPipeline
    \/ InitGrids
    \/ InitPixels
    \/ InitFill
    \/ InitRects
    \/ InitProducts
    \/ InitUtm
    \/ InitChoose
    \/ InitConnect
    \/ InitLoader

Next ==
    \/ RunPipelineStart
    \/ SceneBegin
    \/ SceneBands
    \/ Summary
    \/ NdviOpen
    \/ NdviRead
    \/ NdviCompute
    \/ NdviWrite
    \/ ClipOpen
    \/ ClipOverlap
    \/ ClipMask
    \/ ClipWrite
    \/ ClipProducts
    \/ ConnectAttempt
    \/ ChooseTargetEpsg
    \/ UtmEpsg
    \/ LoadAois
    \/ LoadNdviFull
    \/ LoadNdviClipped
    \/ LoadNdviViz

Spec == Init /\ [][Next]_vars

\* runs of run_pipeline with the default products options
InitBatch ==
    \E sc \in SceneLists, a \in PipelineAois :
        Start("run_pipeline", sc, a, NoOpts, 32633, NoFiles)

\* run_pipeline and _connect_with_retry are sequential code: a step that can be
\* taken is taken
FairSpec == (InitBatch \/ InitConnect) /\ [][Next]_vars /\ WF_vars(Next)

(***************************************************************************)
(* Properties                                                              *)
(***************************************************************************)
\* the scenes whose index raster compute_ndvi has written
Computed ==
    IF entry = "clip_raster_to_aoi" THEN {}
    ELSE {k \in 1..Len(scenes) : <<scenes[k].scene_id, "NDVI">> \in DOMAIN disk}

IndexOf(k) == disk[<<scenes[k].scene_id, "NDVI">>]

Pixels(r) == (1..r.height) \X (1..r.width)

\* DN * 0.0000275 - 0.2
Reflectance(v) == Add[Mul[v, Fin[275, 10000000]], Fin[-2, 10]]

RedAt(k, p) == Reflectance(scenes[k].B4.px[p[1]][p[2]])

NirAt(k, p) == Reflectance(scenes[k].B5.px[p[1]][p[2]])

Zero == Fin[0, 1]

\* C1 (as claimed): wherever the scaled red and NIR values are finite and their sum
\* is not 0, the value compute_ndvi writes lies in [-1, 1].
C1_IndexInUnitRange ==
    \A k \in Computed : \A p \in Pixels(IndexOf(k)) :
        (IsFinite(RedAt(k, p)) /\ IsFinite(NirAt(k, p))
            /\ Add[RedAt(k, p), NirAt(k, p)] # Zero)
        => InRange(IndexOf(k).px[p[1]][p[2]], -1, 1)

\* every pixel of every index raster on disk is a finite number
NoNaNOnDisk ==
    \A k \in Computed : \A p \in Pixels(IndexOf(k)) :
        IsFinite(IndexOf(k).px[p[1]][p[2]])

\* the index raster a step writes holds -9999.0 wherever red + nir is 0 or the
\* quotient (nir - red)/(nir + red) is not finite
SentinelWritten ==
    \A k \in 1..Len(scenes) :
        LET path == <<scenes[k].scene_id, "NDVI">>
        IN (entry # "clip_raster_to_aoi" /\ path \notin DOMAIN disk
               /\ path \in DOMAIN disk')
           => \A p \in Pixels(disk'[path]) :
                 LET r == RedAt(k, p)
                     n == NirAt(k, p)
                 IN (Add[r, n] = Zero \/ ~IsFinite(Div[Sub[n, r], Add[n, r]]))
                       => disk'[path].px[p[1]][p[2]] = Fin[-9999, 1]

\* C2: no pixel of an index raster on disk is NaN or +-Inf, and wherever red + nir
\* is 0 or the quotient (nir - red)/(nir + red) is not finite the pixel that
\* compute_ndvi writes is -9999.0.
C2_SentinelForNonFinite == []NoNaNOnDisk /\ [][SentinelWritten]_vars

\* a written raster with a pixel whose red + nir is 0 with nir - red # 0 (x/0), and
\* that pixel holds the sentinel
C2_Witness ==
    \E k \in Computed : \E p \in Pixels(IndexOf(k)) :
        /\ IsFinite(RedAt(k, p))
        /\ RedAt(k, p) # Zero
        /\ Add[RedAt(k, p), NirAt(k, p)] = Zero
        /\ IndexOf(k).px[p[1]][p[2]] = Fin[-9999, 1]

\* width, height and the four coefficients of the north-up transform are equal
GridsEqual(sc) ==
    /\ sc.B4.width = sc.B5.width
    /\ sc.B4.height = sc.B5.height
    /\ sc.B4.transform.a = sc.B5.transform.a
    /\ sc.B4.transform.c = sc.B5.transform.c
    /\ sc.B4.transform.e = sc.B5.transform.e
    /\ sc.B4.transform.f = sc.B5.transform.f

GridMismatch == "B4 and B5 rasters are not on the same grid."

\* C3: a compute_ndvi call returns iff the two rasters have the same width, height
\* and transform; otherwise it raises the grid-mismatch error, and then no band of
\* the pair has been read and no index raster has been written for it.
C3_GridCheck ==
    /\ (entry = "compute_ndvi" /\ pc = "returned")
          => (GridsEqual(scenes[1]) /\ <<"1", "NDVI">> \in DOMAIN disk)
    /\ (entry = "compute_ndvi" /\ pc = "raised")
          => (~GridsEqual(scenes[1]) /\ error = GridMismatch)
    /\ \A k \in 1..Len(scenes) :
          (entry # "clip_raster_to_aoi" /\ ~GridsEqual(scenes[k]))
          => /\ <<scenes[k].scene_id, "B4">> \notin reads
             /\ <<scenes[k].scene_id, "B5">> \notin reads
             /\ <<scenes[k].scene_id, "NDVI">> \notin DOMAIN disk
             /\ (entry = "run_pipeline" /\ k < i /\ scenes[k].hasB4 /\ scenes[k].hasB5)
                   => \E j \in 1..Len(failures) :
                         failures[j] = <<scenes[k].scene_id, GridMismatch>>

\* a direct call on rasters of the same shape whose transforms differ has raised
C3_Witness ==
    /\ entry = "compute_ndvi"
    /\ pc = "raised"
    /\ error = GridMismatch
    /\ scenes[1].B4.width = scenes[1].B5.width
    /\ scenes[1].B4.height = scenes[1].B5.height
    /\ scenes[1].B4.transform # scenes[1].B5.transform
    /\ reads = {}
    /\ DOMAIN disk = {}

\* the positions of run_loader
LoaderPcs ==
    {"connect", "choose_epsg", "utm", "load_aois", "load", "load_clipped", "load_viz",
     "done"}

\* the scene loop of run_pipeline is over: run_loader is running, has returned, or
\* has raised after connecting
LoopDone ==
    /\ entry = "run_pipeline"
    /\ pc \in LoaderPcs \/ (pc = "raised" /\ conn # "none")

\* the ids recorded in the failure list
FailedIds == {failures[j][1] : j \in 1..Len(failures)}

\* the scenes are attempted in order and without a gap; no error has left the loop
\* (run_loader, called after the summary, is outside every try)
ScenesInOrder ==
    entry = "run_pipeline" =>
        /\ (pc = "raised" => (i = Len(scenes) + 1 /\ conn # "none"))
        /\ (error # "" => pc = "raised")
        /\ attempted = [k \in 1..Len(attempted) |-> k]
        /\ (LoopDone => attempted = [k \in 1..Len(scenes) |-> k])

\* C4: no error raised while a scene is processed leaves run_pipeline: the run is
\* never aborted, the scenes are attempted in order without a gap, and whichever
\* scenes fail, every scene of the list is eventually attempted.
C4_EverySceneAttempted ==
    /\ []ScenesInOrder
    /\ [](entry = "run_pipeline" => <>(attempted = [k \in 1..Len(scenes) |-> k]))

\* the loop is over, the first scene failed and a later one succeeded
C4_Witness ==
    /\ LoopDone
    /\ Len(scenes) >= 2
    /\ failures # <<>>
    /\ failures[1][1] = scenes[1].scene_id
    /\ <<scenes[Len(scenes)].scene_id, "NDVI_clipped">> \in DOMAIN disk
    /\ attempted = [k \in 1..Len(scenes) |-> k]

\* C5: between two scenes success_count + failure_count is the number of scenes
\* attempted, and the failure list has failure_count entries; when the loop is over
\* the sum is the length of the scene list, the failure list names each failed scene
\* (one without clipped raster) exactly once and no other scene.
C5_CountsAddUp ==
    entry = "run_pipeline" =>
        /\ Len(failures) = failure_count
        /\ Cardinality(FailedIds) = failure_count
        /\ (pc \in {"start", "scene"} =>
              success_count + failure_count = Len(attempted))
        /\ (LoopDone =>
              /\ success_count + failure_count = Len(scenes)
              /\ \A k \in 1..Len(scenes) :
                    (scenes[k].scene_id \in FailedIds)
                    <=> (<<scenes[k].scene_id, "NDVI_clipped">> \notin DOMAIN disk)
              /\ success_count =
                    Cardinality({k \in 1..Len(scenes) :
                        <<scenes[k].scene_id, "NDVI_clipped">> \in DOMAIN disk}))

\* the loop is over with scenes of both outcomes, failures of two different kinds
C5_Witness ==
    /\ LoopDone
    /\ success_count >= 1
    /\ failure_count >= 2
    /\ \E j \in 1..Len(failures) : failures[j][2] = "KeyError"
    /\ \E j \in 1..Len(failures) : failures[j][2] = GridMismatch
    /\ success_count + failure_count = Len(scenes)

\* the AOI file is unreadable, has no feature, cannot be reprojected, or is empty
\* after reprojection
BadAoi == aoi.status # "ok" \/ aoi.geom.empty

\* C6 (as claimed): with a bad AOI the run stops before any scene is processed: no
\* band is read, no index raster is written, and the load step is not reached.
C6_BadAoiAbortsRun ==
    (entry = "run_pipeline" /\ BadAoi) =>
        /\ reads = {}
        /\ Files("NDVI") = {}
        /\ (pc \notin LoaderPcs \cup {"raised"} \/ scenes = <<>>)

NoOverlap == "Input shapes do not overlap raster."

\* the square of the fallback distance, in half units
Reach2 == (2 * BUFFER_DIST) * (2 * BUFFER_DIST)

\* the processing of scene k is over
ClipDone(k) ==
    IF entry = "run_pipeline" THEN k < i ELSE pc \in {"raised", "returned"}

\* the overlap decision for scene k has been taken and has let the scene through
PastOverlap(k) ==
    k = i /\ pc \in {"clip_mask", "clip_write", "clip_products"}

\* mask() has returned for scene k
PastMask(k) ==
    k = i /\ pc \in {"clip_write", "clip_products"}

\* the error with which the processing of scene k ended
Rejected(k, msg) ==
    IF entry = "run_pipeline"
    THEN \E j \in 1..Len(failures) : failures[j] = <<scenes[k].scene_id, msg>>
    ELSE pc = "raised" /\ error = msg

\* the geometries with which mask() was called on raster p
MaskCalls(p) == {m.geom : m \in {mm \in masked : mm.path = p}}

\* C7: for a raster and a good AOI geometry at distance d from its footprint: d = 0
\* gives a mask() call with the geometry itself, 0 < d <= 1.0 one with the geometry
\* buffered by 1.0, and d > 1.0 is rejected with the no-overlap error before any
\* mask() call and without a clipped raster.
C7_OverlapDecision ==
    \A k \in 1..Len(scenes) :
        LET p == <<scenes[k].scene_id, "NDVI">>
            cl == <<scenes[k].scene_id, "NDVI_clipped">>
        IN (entry # "compute_ndvi" /\ p \in DOMAIN disk /\ AoiError(aoi, disk[p]) = "")
           => LET d2 == Dist2(aoi.geom, Footprint(disk[p]))
              IN /\ (d2 = 0) => (MaskCalls(p) \subseteq {aoi.geom})
                 /\ (0 < d2 /\ d2 <= Reach2)
                       => (MaskCalls(p) \subseteq {Buffer(aoi.geom, BUFFER_DIST)})
                 /\ (d2 <= Reach2 /\ (PastMask(k) \/ ClipDone(k)))
                       => (MaskCalls(p) # {})
                 /\ (d2 <= Reach2 /\ ClipDone(k) /\ cl \notin DOMAIN disk)
                       => Rejected(k, NoOverlap)
                 /\ (d2 > Reach2)
                       => /\ MaskCalls(p) = {}
                          /\ cl \notin DOMAIN disk
                          /\ ~PastOverlap(k)
                          /\ (ClipDone(k) => Rejected(k, NoOverlap))

\* a direct call with a geometry one and a half units from the footprint has raised
\* the no-overlap error without calling mask()
C7_Witness ==
    /\ entry = "clip_raster_to_aoi"
    /\ pc = "raised"
    /\ error = NoOverlap
    /\ AoiError(aoi, disk[<<"1", "NDVI">>]) = ""
    /\ Dist2(aoi.geom, Footprint(disk[<<"1", "NDVI">>])) > Reach2
    /\ Dist2(aoi.geom, Footprint(disk[<<"1", "NDVI">>])) <= Reach2 + 5
    /\ masked = {}
    /\ <<"1", "NDVI_clipped">> \notin DOMAIN disk

\* the calls of mask() whose clipped raster has been written
Clipped == {m \in masked : <<m.path[1], "NDVI_clipped">> \in DOMAIN disk}

ClipOut(m) == disk[<<m.path[1], "NDVI_clipped">>]

\* C8 (as claimed): every pixel of a clipped raster whose centre is outside the
\* geometry holds the source's nodata value, or -9999.0 when the source has none.
C8_OutsideFilledWithNodata ==
    \A m \in Clipped :
        LET s == disk[m.path]
            win == GeometryWindow(s, m.geom)
        IN \A p \in Pixels(ClipOut(m)) :
              ~PixelInside(s, m.geom, win.row_off + p[1], win.col_off + p[2])
              => ClipOut(m).px[p[1]][p[2]] = IF s.hasNodata THEN s.nodata ELSE NODATA

\* the point (x, y) lies in geometry g
PointIn(g, x, y) ==
    LET dx == Max(0, Max(g.x0 - x, x - g.x1))
        dy == Max(0, Max(g.y0 - y, y - g.y1))
    IN ~g.empty /\ dx * dx + dy * dy <= g.r * g.r

\* geometry g covers box b (both are convex)
Covers(g, b) ==
    /\ PointIn(g, b.x0, b.y0)
    /\ PointIn(g, b.x0, b.y1)
    /\ PointIn(g, b.x1, b.y0)
    /\ PointIn(g, b.x1, b.y1)

\* C9: a clipped raster is not empty and its footprint lies in the footprint of its
\* source; clipped with a geometry that covers the source's footprint it has the
\* source's width, height, transform and pixels.
C9_ClipWithinExtent ==
    \A m \in Clipped :
        LET s == disk[m.path]
            o == ClipOut(m)
            fs == Footprint(s)
            fo == Footprint(o)
        IN /\ o.width >= 1
           /\ o.height >= 1
           /\ fs.x0 <= fo.x0
           /\ fo.x1 <= fs.x1
           /\ fs.y0 <= fo.y0
           /\ fo.y1 <= fs.y1
           /\ Covers(m.geom, fs)
                 => /\ o.width = s.width
                    /\ o.height = s.height
                    /\ o.transform = s.transform
                    /\ o.px = s.px

\* a direct call with a geometry that covers the raster and reaches beyond it on
\* every side has returned a clipped raster equal to its source
C9_Witness ==
    /\ entry = "clip_raster_to_aoi"
    /\ pc = "returned"
    /\ \E m \in Clipped :
          /\ m.geom.x0 < Footprint(disk[m.path]).x0
          /\ m.geom.y0 < Footprint(disk[m.path]).y0
          /\ m.geom.x1 > Footprint(disk[m.path]).x1
          /\ m.geom.y1 > Footprint(disk[m.path]).y1
          /\ ClipOut(m).px = disk[m.path].px
          /\ ClipOut(m).transform = disk[m.path].transform

\* C10 (as claimed): a reprojection call whose raster is already in the destination
\* CRS resamples nothing and writes no raster.
C10_SameCrsShortCircuits ==
    \A e \in reprojections :
        e.src_crs = e.dst_crs => (~e.wrote /\ e.resampling = "none")

\* C11 (as claimed): every reprojection that resamples uses bilinear interpolation
\* for a floating-point band and nearest-neighbour for any other band.
C11_ResamplingByDtype ==
    \A e \in reprojections :
        e.wrote => e.resampling = IF e.dtype \in {"float32", "float64"}
                                  THEN "bilinear" ELSE "nearest"

\* C14: every geometry handed to mask() intersects the raster's footprint; it is the
\* AOI geometry itself exactly when that intersects the footprint, and otherwise the
\* AOI geometry buffered by 1.0.
C14_MaskGeometryIsDecided ==
    \A m \in masked :
        LET fp == Footprint(disk[m.path])
        IN /\ Intersects(m.geom, fp)
           /\ Intersects(aoi.geom, fp) => m.geom = aoi.geom
           /\ ~Intersects(aoi.geom, fp)
                 => /\ m.geom = Buffer(aoi.geom, BUFFER_DIST)
                    /\ m.geom # aoi.geom

\* mask() has been called with a buffered geometry for an AOI that does not itself
\* intersect the footprint, and the clipped raster has been written
C14_Witness ==
    \E m \in Clipped :
        /\ ~Intersects(aoi.geom, Footprint(disk[m.path]))
        /\ m.geom = Buffer(aoi.geom, BUFFER_DIST)
        /\ Intersects(m.geom, Footprint(disk[m.path]))

\* C15 (as claimed): a pixel whose red or NIR input equals its band's nodata value
\* is written as -9999.0.
C15_FillIsMasked ==
    \A k \in Computed : \A p \in Pixels(IndexOf(k)) :
        LET b4 == scenes[k].B4
            b5 == scenes[k].B5
        IN ((b4.hasNodata /\ b4.px[p[1]][p[2]] = b4.nodata)
               \/ (b5.hasNodata /\ b5.px[p[1]][p[2]] = b5.nodata))
           => IndexOf(k).px[p[1]][p[2]] = NODATA

\* _utm_epsg_for_lonlat has returned, called directly or by choose_target_epsg
UtmReturned ==
    /\ entry \in {"_utm_epsg_for_lonlat", "choose_target_epsg"}
    /\ pc = "returned"
    /\ c # NoPoint

\* C12: _utm_epsg_for_lonlat(lon, lat) returns 32600 + zone for lat >= 0 and
\* 32700 + zone for lat < 0, where zone is the integer with
\* zone - 1 <= (lon + 180)/6 < zone; (15, 55) gives 32633, (15, -55) gives 32733 and
\* longitude -177 gives zone 1.
C12_UtmCodeFromZone ==
    UtmReturned =>
        LET zone == target_epsg - (IF c[2] >= 0 THEN 32600 ELSE 32700)
        IN /\ 12 * (zone - 1) <= c[1] + 360
           /\ c[1] + 360 < 12 * zone
           /\ (c = <<30, 110>>) => target_epsg = 32633
           /\ (c = <<30, 0 - 110>>) => target_epsg = 32733
           /\ (c[1] = 0 - 354) => zone = 1

\* a direct call for (15, -55) has returned 32733
C12_Witness ==
    /\ entry = "_utm_epsg_for_lonlat"
    /\ pc = "returned"
    /\ c = <<30, 0 - 110>>
    /\ target_epsg = 32733

\* C16 (as claimed): for a longitude in [-180, 180] the code returned is a UTM code,
\* 32601..32660 or 32701..32760.
C16_ZoneInRange ==
    (UtmReturned /\ c[1] \in (0 - 360)..360) =>
        target_epsg \in (32601..32660) \cup (32701..32760)

\* the geographic CRSs among the AOI files' (WGS 84, ETRS89, NAD83); the others
\* are projected
GeographicCrs == {4326, 4258, 4269}

IsProjected(crs) == crs # 0 /\ crs \notin GeographicCrs

\* C13 (as claimed): choose_target_epsg returns the AOI's own code exactly when its
\* CRS is projected; for a geographic or missing CRS it returns the UTM code of the
\* centroid, or DEFAULT_TARGET_EPSG when there is none, and never the AOI's own
\* code.
C13_OwnCodeOnlyIfProjected ==
    (entry = "choose_target_epsg" /\ pc = "returned") =>
        IF IsProjected(aoi.crs)
        THEN target_epsg = aoi.crs /\ c = NoPoint
        ELSE /\ target_epsg # aoi.crs
             /\ target_epsg = IF aoi.centroid = NoPoint THEN DEFAULT_TARGET_EPSG
                               ELSE UtmEpsgForLonLat(aoi.centroid[1], aoi.centroid[2])

NeverReachable == "Database never became reachable."

\* the attempts made so far were refused, the connection returned is that of the
\* first attempt the server accepts, and an error is raised only by the 30th refusal
\* or at once by another exception
ConnectOutcome ==
    entry = "_connect_with_retry" =>
        /\ attempt <= MAX_TRIES
        /\ pc \in {"connect", "returned", "raised"}
        /\ (pc = "connect") =>
              (conn = "none" /\ attempt < MAX_TRIES /\ attempt <= env.down)
        /\ (pc = "returned") =>
              (conn = "open" /\ attempt = env.down + 1 /\ env.down < MAX_TRIES)
        /\ (pc = "raised") =>
              /\ conn = "none"
              /\ error \in {NeverReachable, "Exception"}
              /\ (error = NeverReachable) => (attempt = MAX_TRIES /\ env.down >= MAX_TRIES)
              /\ (error = "Exception") => (attempt = env.other /\ attempt <= env.down + 1)

\* C18: _connect_with_retry terminates after at most 30 attempts: it returns the
\* connection of the first attempt that succeeds, raises RuntimeError after exactly
\* 30 consecutive OperationalErrors, and lets any other exception out at once.
C18_ConnectTerminates ==
    /\ []ConnectOutcome
    /\ [](entry = "_connect_with_retry" => <>(pc \in {"returned", "raised"}))

\* thirty attempts were refused and RuntimeError has been raised
C18_Witness ==
    /\ entry = "_connect_with_retry"
    /\ pc = "raised"
    /\ error = NeverReachable
    /\ attempt = MAX_TRIES
    /\ env.down >= MAX_TRIES

\* C17 (as claimed): a failed insert affects only its own row: after a phase's
\* commit every row of the phase whose safe_execute returned True is in the
\* database, and the number of AOIs reported as loaded is the number of AOIs
\* committed.
C17_FailedInsertLosesOnlyItsRow ==
    entry \in {"run_loader", "run_pipeline"} =>
        /\ count = Cardinality(Table("aois", db))
        /\ \A id \in ndvi_full : <<"ndvi_full", id>> \in db
        /\ \A id \in ndvi_clipped : <<"ndvi_clipped", id>> \in db
====
